---- MODULE Spec2Model ----
(***************************************************************************)
(* Peer registry, handshake/election round, gossip merge and the two event *)
(* fetch loops of NodeManager (src/src/network.rs).                        *)
(*                                                                         *)
(* An Option<T> is modelled as a sequence: <<>> is None, <<x>> is Some(x). *)
(* A Peer is the record [addr, current_block].                             *)
(***************************************************************************)
EXTENDS Integers, Sequences, FiniteSets, TLC

\* ---------------------------------------------------------------- bounds
NumAddrs == 2
MaxBlock == 1
MaxGossip == 1
MaxRequests == 3
MaxPageLen == 1
MaxCursor == 1
MaxQueries == 12

Addrs == 1..NumAddrs
Blocks == 0..MaxBlock
Peer == [addr : Addrs, current_block : Blocks]

\* Peer lists a /get-peers response can carry.
RECURSIVE SeqsUpTo(_, _)
SeqsUpTo(S, n) ==
    IF n = 0 THEN {<<>>}
    ELSE LET shorter == SeqsUpTo(S, n - 1)
         IN  shorter \cup {Append(s, x) : s \in {t \in shorter : Len(t) = n - 1}, x \in S}

GossipLists == SeqsUpTo(Peer, MaxGossip)

VARIABLES
    peers,          \* self.peers : Vec<Peer>
    elected_peer,   \* self.elected_peer : Option<Peer>
    external_addr,  \* self.external_addr : Option<addr>
    is_client,      \* self.is_client : bool
    pc,             \* position of the caller: "idle", "loop", "gossip", "done"
    todo,           \* sync_with_peers: the part of the snapshot not yet iterated
    cur,            \* sync_with_peers: the peer passed to _add_batch_peer_peers
    local_elected,  \* sync_with_peers: local elected_peer : Option<Peer>
    max_length,     \* sync_with_peers: local max_length
    result,         \* what the last sync round returned: "none", "ok", "err"
    succeeded,      \* history: peers whose handshake succeeded in this round
    elected_before, \* history: self.elected_peer when the round started
    contacted,      \* history: how many peers the round has taken from the snapshot
    last_step,      \* history: what the step just taken did (a set of tags)
    fpc,            \* get_events_from_elected_peer: "idle", "request", "done"
    from_spend,     \* get_events_from_elected_peer: cursor from_spend
    from_sent,      \* get_events_from_elected_peer: cursor from_sent
    spend_events,   \* get_events_from_elected_peer: local spend_events
    sent_events,    \* get_events_from_elected_peer: local sent_events
    ret,            \* get_events_from_elected_peer: the value returned
    log,            \* history: the requests of the call and their responses
    network,        \* self.network is Some(..)
    rpc,            \* get_spend_events / get_sent_events: "idle", "loop", "done"
    kind,           \* which of the two is running: "spend" or "sent"
    from,           \* get_*_events: parameter from
    to,             \* get_*_events: parameter to
    step,           \* get_*_events: local step
    events,         \* get_*_events: local events (the block of each event)
    queries         \* history: the queries of the call and their outcomes

syncvars == <<peers, elected_peer, external_addr, is_client, pc, todo, cur,
              local_elected, max_length, result, succeeded, elected_before,
              contacted, last_step>>

fetchvars == <<fpc, from_spend, from_sent, spend_events, sent_events, ret, log>>

rangevars == <<network, rpc, kind, from, to, step, events, queries>>

vars == <<syncvars, fetchvars, rangevars>>

\* ------------------------------------------------------------- registry

\* Peer's PartialEq, used by Vec::contains in add_peer. The Peer type lives in
\* crate::config; its identity is the address alone.
PeerEq(p, q) == p.addr = q.addr

contains(ps, peer) == \E i \in 1..Len(ps) : PeerEq(ps[i], peer)

add_peer_no_dedup(ps, ext, peer) ==
    IF ext # <<>> /\ peer.addr = ext[1] THEN ps ELSE Append(ps, peer)

add_peer_no_self_check(ps, ext, peer) ==
    IF ~contains(ps, peer) THEN Append(ps, peer) ELSE ps

add_peer_overwrite(ps, ext, peer) ==
    IF ext # <<>> /\ peer.addr = ext[1] THEN ps
    ELSE IF ~contains(ps, peer) THEN Append(ps, peer)
    ELSE [i \in 1..Len(ps) |-> IF ps[i].addr = peer.addr THEN peer ELSE ps[i]]

add_peer(ps, ext, peer) ==
    IF ext # <<>> /\ peer.addr = ext[1] THEN ps
    ELSE IF ~contains(ps, peer) THEN Append(ps, peer)
    ELSE ps

remove_peer_inverted(ps, peer) == SelectSeq(ps, LAMBDA p : p.addr = peer.addr)

remove_peer(ps, peer) == SelectSeq(ps, LAMBDA p : p.addr # peer.addr)

update_peer(ps, ext, peer) == add_peer(remove_peer(ps, peer), ext, peer)

RECURSIVE add_all(_, _, _)
add_all(ps, ext, list) ==
    IF list = <<>> THEN ps
    ELSE add_all(add_peer(ps, ext, Head(list)), ext, Tail(list))

NoReturn == [kind |-> "none", spend |-> <<>>, sent |-> <<>>, block |-> 0]

\* No fetch is running.
FetchIdle ==
    /\ fpc = "idle"
    /\ from_spend = 0
    /\ from_sent = 0
    /\ spend_events = <<>>
    /\ sent_events = <<>>
    /\ ret = NoReturn
    /\ log = <<>>

\* No sync round has run and none is running.
SyncIdle ==
    /\ pc = "idle"
    /\ todo = <<>>
    /\ cur = <<>>
    /\ local_elected = <<>>
    /\ max_length = 0
    /\ result = "none"
    /\ succeeded = <<>>
    /\ elected_before = <<>>
    /\ contacted = 0
    /\ last_step = {}

\* No direct fetch is running.
RangeIdle ==
    /\ rpc = "idle"
    /\ kind = "spend"
    /\ from = 0
    /\ to = 0
    /\ step = 0
    /\ events = <<>>
    /\ queries = <<>>

Init ==
    /\ peers = <<>>
    /\ elected_peer = <<>>
    /\ external_addr \in {<<>>, <<1>>}
    /\ is_client \in BOOLEAN
    /\ SyncIdle
    /\ FetchIdle
    /\ network = FALSE
    /\ RangeIdle

\* No call is in flight: the caller may start the next operation.
AtRest == pc \in {"idle", "done"}

ClearRound ==
    /\ todo' = <<>>
    /\ cur' = <<>>
    /\ local_elected' = <<>>
    /\ max_length' = 0
    /\ result' = "none"
    /\ succeeded' = <<>>
    /\ elected_before' = <<>>
    /\ contacted' = 0
    /\ last_step' = {}

AddPeer ==
    /\ AtRest
    /\ \E p \in Peer : peers' = add_peer(peers, external_addr, p)
    /\ pc' = "idle"
    /\ ClearRound
    /\ UNCHANGED <<elected_peer, external_addr, is_client,
                   fetchvars, rangevars>>

RemovePeer ==
    /\ AtRest
    /\ \E p \in Peer : peers' = remove_peer(peers, p)
    /\ pc' = "idle"
    /\ ClearRound
    /\ UNCHANGED <<elected_peer, external_addr, is_client,
                   fetchvars, rangevars>>

\* ------------------------------------------------------ sync_with_peers

\* Locals of sync_with_peers are dropped when it returns.
Return(res) ==
    /\ pc' = "done"
    /\ result' = res
    /\ cur' = <<>>
    /\ local_elected' = <<>>
    /\ max_length' = 0

\* Lines 39-45: the locals, the HTTP client, the snapshot get_peers().
SyncStart ==
    /\ AtRest
    /\ pc' = "loop"
    /\ todo' = peers
    /\ cur' = <<>>
    /\ local_elected' = <<>>
    /\ max_length' = 0
    /\ result' = "none"
    /\ succeeded' = <<>>
    /\ elected_before' = elected_peer
    /\ contacted' = 0
    /\ last_step' = {}
    /\ UNCHANGED <<peers, elected_peer, external_addr, is_client,
                   fetchvars, rangevars>>

\* Line 43: Client::builder().build()? fails.
SyncClientError ==
    /\ AtRest
    /\ Return("err_client")
    /\ todo' = <<>>
    /\ succeeded' = <<>>
    /\ elected_before' = elected_peer
    /\ contacted' = 0
    /\ last_step' = {}
    /\ UNCHANGED <<peers, elected_peer, external_addr, is_client,
                   fetchvars, rangevars>>

\* The loop takes the next peer of the snapshot.
Iterating == pc = "loop" /\ todo # <<>>

HasUrl_unchecked == TRUE

\* Lines 50-58: a node that is not a client needs external_addr for the URL.
HasUrl == is_client \/ external_addr # <<>>

HandshakeConfigError ==
    /\ Iterating
    /\ ~HasUrl
    /\ Return("err_config")
    /\ todo' = Tail(todo)
    /\ contacted' = contacted + 1
    /\ last_step' = {}
    /\ UNCHANGED <<peers, elected_peer, external_addr, is_client, succeeded,
                   elected_before,
                   fetchvars, rangevars>>

\* Lines 80-91: the three else branches all remove the peer and go on.
HandshakeFailed ==
    /\ peers' = remove_peer(peers, Head(todo))
    /\ todo' = Tail(todo)
    /\ contacted' = contacted + 1
    /\ last_step' = {"handshake_failed"}
    /\ UNCHANGED <<elected_peer, external_addr, is_client, pc, cur, local_elected,
                   max_length, result, succeeded, elected_before,
                   fetchvars, rangevars>>

\* Line 88: send() returned Err.
HandshakeTransportError == Iterating /\ HasUrl /\ HandshakeFailed

\* Line 84: the status is not a success.
HandshakeBadStatus == Iterating /\ HasUrl /\ HandshakeFailed

\* Line 80: resp.text() returned Err.
HandshakeBodyError == Iterating /\ HasUrl /\ HandshakeFailed

\* Line 65: serde_json::from_str(&body)? returns the error to the caller.
HandshakeBadJson ==
    /\ Iterating
    /\ HasUrl
    /\ Return("err_json")
    /\ todo' = Tail(todo)
    /\ contacted' = contacted + 1
    /\ last_step' = {}
    /\ UNCHANGED <<peers, elected_peer, external_addr, is_client, succeeded,
                   elected_before,
                   fetchvars, rangevars>>

\* Lines 74-77: the round's provisional winner.
Elect(le, ml, peer) ==
    IF peer.current_block >= ml THEN <<peer>> ELSE le

NewMax(ml, peer) ==
    IF peer.current_block >= ml THEN peer.current_block ELSE ml

\* Lines 65-79, up to the request _add_batch_peer_peers sends.
HandshakeOk ==
    /\ Iterating
    /\ HasUrl
    /\ \E h \in Blocks :
         LET peer == [addr |-> Head(todo).addr, current_block |-> h]
         IN  /\ peers' = update_peer(peers, external_addr, peer)
             /\ local_elected' = Elect(local_elected, max_length, peer)
             /\ max_length' = NewMax(max_length, peer)
             /\ cur' = <<peer>>
             /\ succeeded' = Append(succeeded, peer)
    /\ todo' = Tail(todo)
    /\ contacted' = contacted + 1
    /\ last_step' = {}
    /\ pc' = "gossip"
    /\ UNCHANGED <<elected_peer, external_addr, is_client, result, elected_before,
                   fetchvars, rangevars>>

\* ------------------------------------------------ _add_batch_peer_peers

\* Line 106: Client::builder().build()? fails; line 79 passes the error on.
GossipClientError ==
    /\ pc = "gossip"
    /\ Return("err_client")
    /\ last_step' = {}
    /\ UNCHANGED <<peers, elected_peer, external_addr, is_client, todo, succeeded,
                   elected_before, contacted,
                   fetchvars, rangevars>>

\* Lines 119-130: the three else branches all remove the source peer.
GossipFailed ==
    /\ peers' = remove_peer(peers, cur[1])
    /\ pc' = "loop"
    /\ cur' = <<>>
    /\ last_step' = {"gossip_failed"}
    /\ UNCHANGED <<elected_peer, external_addr, is_client, todo, local_elected,
                   max_length, result, succeeded, elected_before, contacted,
                   fetchvars, rangevars>>

GossipTransportError == pc = "gossip" /\ GossipFailed

GossipBadStatus == pc = "gossip" /\ GossipFailed

GossipBodyError == pc = "gossip" /\ GossipFailed

\* Line 115: serde_json::from_str(&body)? returns the error; line 79 passes it on.
GossipBadJson ==
    /\ pc = "gossip"
    /\ Return("err_json")
    /\ last_step' = {}
    /\ UNCHANGED <<peers, elected_peer, external_addr, is_client, todo, succeeded,
                   elected_before, contacted,
                   fetchvars, rangevars>>

\* History only: what kind of entries the response carried.
Offered(list) ==
    {"offered_known" : i \in {i \in 1..Len(list) :
        \E k \in 1..Len(peers) :
            /\ peers[k].addr = list[i].addr
            /\ peers[k].current_block # list[i].current_block}}
    \cup {"offered_self" : i \in {i \in 1..Len(list) :
        external_addr # <<>> /\ list[i].addr = external_addr[1]}}

\* Lines 115-118: every peer of the response goes through add_peer.
GossipOk ==
    /\ pc = "gossip"
    /\ \E list \in GossipLists :
         /\ peers' = add_all(peers, external_addr, list)
         /\ last_step' = {"merged"} \cup Offered(list)
    /\ pc' = "loop"
    /\ cur' = <<>>
    /\ UNCHANGED <<elected_peer, external_addr, is_client, todo, local_elected,
                   max_length, result, succeeded, elected_before, contacted,
                   fetchvars, rangevars>>

SyncFinish_monotonic ==
    /\ pc = "loop"
    /\ todo = <<>>
    /\ elected_peer' =
            IF /\ local_elected # <<>>
               /\ \/ elected_peer = <<>>
                  \/ local_elected[1].current_block >= elected_peer[1].current_block
            THEN local_elected
            ELSE elected_peer
    /\ Return("ok")
    /\ last_step' = {}
    /\ UNCHANGED <<peers, external_addr, is_client, todo, succeeded, elected_before,
                   contacted, fetchvars, rangevars>>

SyncFinish_clears ==
    /\ pc = "loop"
    /\ todo = <<>>
    /\ elected_peer' = local_elected
    /\ Return("ok")
    /\ last_step' = {}
    /\ UNCHANGED <<peers, external_addr, is_client, todo, succeeded, elected_before,
                   contacted,
                   fetchvars, rangevars>>

\* Lines 93-100: the snapshot is exhausted.
SyncFinish ==
    /\ pc = "loop"
    /\ todo = <<>>
    /\ elected_peer' = IF local_elected # <<>> THEN local_elected ELSE elected_peer
    /\ Return("ok")
    /\ last_step' = {}
    /\ UNCHANGED <<peers, external_addr, is_client, todo, succeeded, elected_before,
                   contacted,
                   fetchvars, rangevars>>

Next ==
    \/ AddPeer
    \/ RemovePeer
    \/ SyncStart
    \/ SyncClientError
    \/ HandshakeConfigError
    \/ HandshakeTransportError
    \/ HandshakeBadStatus
    \/ HandshakeBodyError
    \/ HandshakeBadJson
    \/ HandshakeOk
    \/ GossipClientError
    \/ GossipTransportError
    \/ GossipBadStatus
    \/ GossipBodyError
    \/ GossipBadJson
    \/ GossipOk
    \/ SyncFinish

Spec == Init /\ [][Next]_vars

\* ----------------------------------------- get_events_from_elected_peer

\* Line 148: let step: usize = 256.
PageSize == 256

\* The events of a response are told apart by the request that brought them
\* and their place in it; the code never looks inside an event.
PageItems(k, n) == [i \in 1..n |-> <<k, i>>]

Requesting == fpc = "request" /\ Len(log) < MaxRequests

\* Lines 153-161: the URL of this iteration and the response it got.
Exchange(resp, sp, se) ==
    [from_spend |-> from_spend, from_sent |-> from_sent, length |-> PageSize,
     resp |-> resp, spend |-> sp, sent |-> se]

\* Line 189: Ok((spend_events, sent_events, elected_peer.current_block)).
FetchReturnOk ==
    /\ fpc' = "done"
    /\ ret' = [kind |-> "ok", spend |-> spend_events, sent |-> sent_events,
               block |-> elected_peer[1].current_block]

FetchReturnErr ==
    /\ fpc' = "done"
    /\ ret' = [kind |-> "err", spend |-> <<>>, sent |-> <<>>, block |-> 0]

\* Lines 147-150: a call with an elected peer.
FetchStart ==
    /\ fpc \in {"idle", "done"}
    /\ elected_peer # <<>>
    /\ \E s \in 0..MaxCursor, t \in 0..MaxCursor :
         /\ from_spend' = s
         /\ from_sent' = t
    /\ spend_events' = <<>>
    /\ sent_events' = <<>>
    /\ ret' = NoReturn
    /\ log' = <<>>
    /\ fpc' = "request"
    /\ UNCHANGED <<syncvars, rangevars>>

\* Lines 190-192: no elected peer.
FetchNoElected ==
    /\ fpc \in {"idle", "done"}
    /\ elected_peer = <<>>
    /\ \E s \in 0..MaxCursor, t \in 0..MaxCursor :
         /\ from_spend' = s
         /\ from_sent' = t
    /\ spend_events' = <<>>
    /\ sent_events' = <<>>
    /\ log' = <<>>
    /\ fpc' = "done"
    /\ ret' = [kind |-> "ok", spend |-> <<>>, sent |-> <<>>, block |-> 0]
    /\ UNCHANGED <<syncvars, rangevars>>

\* Line 160: Client::builder().build()? fails before the request is sent.
FetchClientError ==
    /\ Requesting
    /\ FetchReturnErr
    /\ UNCHANGED <<from_spend, from_sent, spend_events, sent_events, log,
                   syncvars, rangevars>>

\* Lines 184-187: send() returned Err: log and break.
FetchTransportError ==
    /\ Requesting
    /\ log' = Append(log, Exchange("transport", <<>>, <<>>))
    /\ FetchReturnOk
    /\ UNCHANGED <<from_spend, from_sent, spend_events, sent_events,
                   syncvars, rangevars>>

\* Lines 181-183: the status is not a success: log, and the loop goes on.
FetchBadStatus ==
    /\ Requesting
    /\ log' = Append(log, Exchange("status", <<>>, <<>>))
    /\ UNCHANGED <<fpc, ret, from_spend, from_sent, spend_events, sent_events,
                   syncvars, rangevars>>

\* Lines 178-180: resp.text() returned Err: log, and the loop goes on.
FetchBodyError ==
    /\ Requesting
    /\ log' = Append(log, Exchange("body", <<>>, <<>>))
    /\ UNCHANGED <<fpc, ret, from_spend, from_sent, spend_events, sent_events,
                   syncvars, rangevars>>

\* Line 167: serde_json::from_str(&body)? returns the error to the caller.
FetchBadJson ==
    /\ Requesting
    /\ log' = Append(log, Exchange("json", <<>>, <<>>))
    /\ FetchReturnErr
    /\ UNCHANGED <<from_spend, from_sent, spend_events, sent_events,
                   syncvars, rangevars>>

FetchEmptyPage_continues ==
    /\ Requesting
    /\ log' = Append(log, Exchange("empty", <<>>, <<>>))
    /\ UNCHANGED <<fpc, ret, from_spend, from_sent, spend_events, sent_events,
                   syncvars, rangevars>>

\* Lines 168-171: both lists of the response are empty: break.
FetchEmptyPage ==
    /\ Requesting
    /\ log' = Append(log, Exchange("empty", <<>>, <<>>))
    /\ FetchReturnOk
    /\ UNCHANGED <<from_spend, from_sent, spend_events, sent_events,
                   syncvars, rangevars>>

FetchPage_advances_by_count ==
    /\ Requesting
    /\ \E n \in 0..MaxPageLen, m \in 0..MaxPageLen :
         LET sp == PageItems(Len(log) + 1, n)
             se == PageItems(Len(log) + 1, m)
         IN  /\ ~(sp = <<>> /\ se = <<>>)
             /\ log' = Append(log, Exchange("page", sp, se))
             /\ spend_events' = spend_events \o sp
             /\ sent_events' = sent_events \o se
             /\ from_spend' = from_spend + n
             /\ from_sent' = from_sent + m
    /\ UNCHANGED <<fpc, ret, syncvars, rangevars>>

\* Lines 173-177: a response with an event in at least one of its lists.
FetchPage ==
    /\ Requesting
    /\ \E n \in 0..MaxPageLen, m \in 0..MaxPageLen :
         LET sp == PageItems(Len(log) + 1, n)
             se == PageItems(Len(log) + 1, m)
         IN  /\ ~(sp = <<>> /\ se = <<>>)
             /\ log' = Append(log, Exchange("page", sp, se))
             /\ spend_events' = spend_events \o sp
             /\ sent_events' = sent_events \o se
    /\ from_spend' = from_spend + PageSize
    /\ from_sent' = from_sent + PageSize
    /\ UNCHANGED <<fpc, ret, syncvars, rangevars>>

FetchInit ==
    /\ peers = <<>>
    /\ elected_peer \in {<<>>} \cup {<<p>> : p \in Peer}
    /\ external_addr = <<>>
    /\ is_client = TRUE
    /\ SyncIdle
    /\ FetchIdle
    /\ network = FALSE
    /\ RangeIdle

FetchNext ==
    \/ FetchStart
    \/ FetchNoElected
    \/ FetchClientError
    \/ FetchTransportError
    \/ FetchBadStatus
    \/ FetchBodyError
    \/ FetchBadJson
    \/ FetchEmptyPage
    \/ FetchPage

FetchSpec == FetchInit /\ [][FetchNext]_vars

\* ------------------------------------ get_spend_events, get_sent_events

\* Lines 205 and 249: let mut step = 1024.
InitialStep == 1024

\* The calls that are checked.
StartBlocks == {0, 256, 1280}
EndBlocks == {0, 1000, 2304}

\* The chain the provider serves: which blocks hold an event of each kind.
HasEvent(k, b) == IF k = "spend" THEN b % 256 = 0 ELSE b % 384 = 128

\* Lines 211-217: the events of kind k in the blocks a..b, both ends included
\* (from_block(a).to_block(b)), in ascending block order.
QueryEvents(k, a, b) ==
    SelectSeq([i \in 1..(b - a + 1) |-> a + i - 1], LAMBDA x : HasEvent(k, x))

\* Line 134: set_provider_network.
SetProviderNetwork ==
    /\ rpc \in {"idle", "done"}
    /\ network' = TRUE
    /\ UNCHANGED <<rpc, kind, from, to, step, events, queries, syncvars, fetchvars>>

\* Lines 196-206 and 240-250: a call with a provider.
RangeStart ==
    /\ rpc \in {"idle", "done"}
    /\ network
    /\ \E k \in {"spend", "sent"}, f \in StartBlocks, t \in EndBlocks :
         /\ kind' = k
         /\ from' = f
         /\ to' = t
    /\ step' = InitialStep
    /\ events' = <<>>
    /\ queries' = <<>>
    /\ rpc' = "loop"
    /\ UNCHANGED <<network, syncvars, fetchvars>>

\* Lines 234-237 and 277-280: no provider: an empty result.
RangeNoProvider ==
    /\ rpc \in {"idle", "done"}
    /\ ~network
    /\ \E k \in {"spend", "sent"}, f \in StartBlocks, t \in EndBlocks :
         /\ kind' = k
         /\ from' = f
         /\ to' = t
    /\ step' = 0
    /\ events' = <<>>
    /\ queries' = <<>>
    /\ rpc' = "done"
    /\ UNCHANGED <<network, syncvars, fetchvars>>

\* Lines 208 and 252: while from < to, one more query.
Querying == rpc = "loop" /\ from < to /\ Len(queries) < MaxQueries

Query(ok) == [from |-> from, to |-> from + step, ok |-> ok]

QueryOk_always_doubles ==
    /\ Querying
    /\ events' = events \o QueryEvents(kind, from, from + step)
    /\ from' = from + step
    /\ step' = step * 2
    /\ queries' = Append(queries, Query(TRUE))
    /\ UNCHANGED <<network, rpc, kind, to, syncvars, fetchvars>>

\* Lines 224-228 and 267-271: the query returned its events.
QueryOk ==
    /\ Querying
    /\ events' = events \o QueryEvents(kind, from, from + step)
    /\ from' = from + step
    /\ step' = IF step < InitialStep THEN step * 2 ELSE step
    /\ queries' = Append(queries, Query(TRUE))
    /\ UNCHANGED <<network, rpc, kind, to, syncvars, fetchvars>>

QueryFailed_advances ==
    /\ from' = from + (step \div 2)
    /\ step' = step \div 2
    /\ queries' = Append(queries, Query(FALSE))
    /\ UNCHANGED <<network, rpc, kind, to, events, syncvars, fetchvars>>

\* Lines 229-231 and 272-274: no events came back: step = step / 2.
QueryFailed ==
    /\ step' = step \div 2
    /\ queries' = Append(queries, Query(FALSE))
    /\ UNCHANGED <<network, rpc, kind, from, to, events, syncvars, fetchvars>>

\* Line 219: the 10 second timeout elapsed.
QueryTimeout == Querying /\ QueryFailed

\* Line 220: the query returned Err.
QueryError == Querying /\ QueryFailed

\* Lines 233 and 276: from >= to: return events.
RangeReturn ==
    /\ rpc = "loop"
    /\ ~(from < to)
    /\ rpc' = "done"
    /\ UNCHANGED <<network, kind, from, to, step, events, queries, syncvars, fetchvars>>

RangeInit ==
    /\ peers = <<>>
    /\ elected_peer = <<>>
    /\ external_addr = <<>>
    /\ is_client = TRUE
    /\ SyncIdle
    /\ FetchIdle
    /\ network = FALSE
    /\ RangeIdle

RangeNext ==
    \/ SetProviderNetwork
    \/ RangeStart
    \/ RangeNoProvider
    \/ QueryOk
    \/ QueryTimeout
    \/ QueryError
    \/ RangeReturn

RangeSpec == RangeInit /\ [][RangeNext]_vars

\* ------------------------------------------------- claims: sync rounds

\* C1: a sync round returns success and processes every peer of its snapshot
\* whatever each handshake or gossip request does; only a failure to build the
\* HTTP client is fatal. (A missing own address is left aside here: it is the
\* configuration error of C12.) Stated for the end of a round.
C1_RoundNeverAborts ==
    pc = "done" /\ result \notin {"err_client", "err_config"}
        => result = "ok" /\ todo = <<>>

\* The peer a round elects: among the successful handshakes the one with the
\* greatest reported height, the latest in snapshot order among equals.
Winner(s) ==
    LET best == CHOOSE i \in 1..Len(s) :
                    /\ \A j \in 1..Len(s) : s[j].current_block <= s[i].current_block
                    /\ \A j \in (i + 1)..Len(s) : s[j].current_block < s[i].current_block
    IN  s[best]

\* C2: after a sync round in which at least one handshake succeeded,
\* elected_peer is the peer that reported the greatest current_block among the
\* peers whose handshake succeeded, the latest in snapshot order among equals.
\* (Rounds ended by a failure to build the HTTP client are left aside.)
C2_ElectedIsRoundWinner ==
    pc = "done" /\ result # "err_client" /\ succeeded # <<>>
        => elected_peer = <<Winner(succeeded)>>

\* C3: peers never holds two entries with the same address.
C3_UniqueAddresses ==
    \A i, j \in 1..Len(peers) : i # j => peers[i].addr # peers[j].addr

\* A gossip response has just offered an address that was already known, with
\* another height, during a round with a successful handshake (update_peer).
C3_Witness ==
    /\ "offered_known" \in last_step
    /\ succeeded # <<>>
    /\ Len(peers) = NumAddrs

\* C4: with external_addr set to A, no entry of peers has address A.
C4_NoSelfEntry ==
    external_addr # <<>> => \A i \in 1..Len(peers) : peers[i].addr # external_addr[1]

\* A gossip response has just listed the node's own address.
C4_Witness ==
    /\ external_addr # <<>>
    /\ "offered_self" \in last_step
    /\ peers # <<>>

\* C8: when the handshake with P fails (the round goes on to the next peer),
\* that step removes exactly the entries with P's address from peers, keeps
\* every other record, in order, and leaves elected_peer alone.
C8_FailureRemovesOnlyThatPeer ==
    [][(Iterating /\ "handshake_failed" \in last_step')
        => /\ peers' = SelectSeq(peers, LAMBDA q : q.addr # Head(todo).addr)
           /\ elected_peer' = elected_peer]_vars

\* A handshake has just failed while another peer is registered and a peer is
\* elected.
C8_Witness ==
    /\ "handshake_failed" \in last_step
    /\ peers # <<>>
    /\ elected_peer # <<>>

\* C9: while no handshake of the round has succeeded, and when the round ends
\* so, elected_peer is what it was before the round.
C9_NoSuccessKeepsElected ==
    pc \in {"loop", "gossip", "done"} /\ succeeded = <<>>
        => elected_peer = elected_before

\* A round has ended in success after contacting peers that all failed, with a
\* peer elected before it.
C9_Witness ==
    /\ pc = "done"
    /\ result = "ok"
    /\ contacted = NumAddrs
    /\ succeeded = <<>>
    /\ elected_before # <<>>

\* C10: a gossip merge leaves every address known before it in peers, with the
\* current_block it had; and when the gossip request fails, no remaining entry
\* changes its current_block either.
C10_MergeKeepsKnownHeights ==
    [][(pc = "gossip" /\ pc' = "loop")
        => /\ \A i \in 1..Len(peers) : \A j \in 1..Len(peers') :
                 peers'[j].addr = peers[i].addr
                     => peers'[j].current_block = peers[i].current_block
           /\ "merged" \in last_step'
                 => \A i \in 1..Len(peers) : \E j \in 1..Len(peers') :
                        peers'[j].addr = peers[i].addr]_vars

\* A merge has just been offered a known address with another height.
C10_Witness ==
    /\ pc = "loop"
    /\ "merged" \in last_step
    /\ "offered_known" \in last_step

\* ---------------------------------------------- claims: paginated fetch

\* C5: in get_events_from_elected_peer a transport error or a non-success
\* status on a page request ends the loop: it is the last request of the call,
\* and the call returns Ok with the events accumulated so far.
C5_ErrorEndsLoop ==
    \A i \in 1..Len(log) :
        log[i].resp \in {"transport", "status"}
            => /\ i = Len(log)
               /\ fpc = "done"
               /\ ret.kind = "ok"
               /\ ret.spend = spend_events
               /\ ret.sent = sent_events

\* The events of the pages of a log, in request order.
RECURSIVE SpendOf(_)
SpendOf(l) == IF l = <<>> THEN <<>> ELSE Head(l).spend \o SpendOf(Tail(l))

RECURSIVE SentOf(_)
SentOf(l) == IF l = <<>> THEN <<>> ELSE Head(l).sent \o SentOf(Tail(l))

\* C6: the first response with both lists empty ends the call: it is the last
\* request, and the call has returned exactly the pages received before it,
\* concatenated in request order, with the elected peer's height.
C6_StopsAtFirstEmptyPage ==
    \A i \in 1..Len(log) :
        log[i].resp = "empty"
            => /\ i = Len(log)
               /\ fpc = "done"
               /\ ret.kind = "ok"
               /\ ret.spend = SpendOf(SubSeq(log, 1, i - 1))
               /\ ret.sent = SentOf(SubSeq(log, 1, i - 1))
               /\ ret.block = elected_peer[1].current_block

\* Two pages with events, then an empty one: three requests.
C6_Witness ==
    /\ fpc = "done"
    /\ Len(log) = 3
    /\ log[1].resp = "page"
    /\ log[2].resp = "page"
    /\ log[3].resp = "empty"
    /\ ret.spend # <<>>
    /\ ret.sent # <<>>

\* ------------------------------------------------- claims: direct fetch

\* C7: a query that times out or fails leaves from and events as they were and
\* halves step, so the next query starts at the same block with half the span;
\* from and events change only in the step of a successful query.
C7_FailureHalvesStepInPlace ==
    /\ [](\A i \in 1..Len(queries) :
            ~queries[i].ok
                => LET half == (queries[i].to - queries[i].from) \div 2
                   IN  IF i < Len(queries)
                       THEN /\ queries[i + 1].from = queries[i].from
                            /\ queries[i + 1].to = queries[i].from + half
                       ELSE /\ from = queries[i].from
                            /\ step = half)
    /\ [][(rpc = "loop" /\ (from' # from \/ events' # events))
            => /\ Len(queries') = Len(queries) + 1
               /\ queries'[Len(queries')].ok]_vars

\* The query [1280, 2304] failed and the next one asked for [1280, 1792].
C7_Witness ==
    \E i \in 1..(Len(queries) - 1) :
        /\ queries[i] = [from |-> 1280, to |-> 2304, ok |-> FALSE]
        /\ queries[i + 1] = [from |-> 1280, to |-> 1792, ok |-> TRUE]

\* ------------------------------------- claims: second group, in order

\* C11: in get_events_from_elected_peer a successful response whose body
\* cannot be read or parsed ends the loop: it is the last request of the call,
\* and the call returns Ok with the events accumulated so far.
C11_ParseErrorEndsLoop ==
    \A i \in 1..Len(log) :
        log[i].resp \in {"body", "json"}
            => /\ i = Len(log)
               /\ fpc = "done"
               /\ ret.kind = "ok"
               /\ ret.spend = spend_events
               /\ ret.sent = sent_events

NoOwnAddress == ~is_client /\ external_addr = <<>>

ChainLog(k, a, b) == QueryEvents(k, a, b - 1)

\* The /events endpoint of a peer serving evs: the page of at most length
\* events that starts after the first cursor events.
PeerPage(evs, cursor, length) ==
    SubSeq(evs, cursor + 1, IF cursor + length < Len(evs) THEN cursor + length ELSE Len(evs))

\* Lines 152-189 run against that endpoint: what the loop accumulates.
RECURSIVE PagedLoop(_, _, _, _, _, _)
PagedLoop(sp, se, fs, ft, accSpend, accSent) ==
    LET pageSpend == PeerPage(sp, fs, PageSize)
        pageSent == PeerPage(se, ft, PageSize)
    IN  IF pageSpend = <<>> /\ pageSent = <<>>
        THEN <<accSpend, accSent>>
        ELSE PagedLoop(sp, se, fs + PageSize, ft + PageSize,
                       accSpend \o pageSpend, accSent \o pageSent)

\* The events of kind k the paginated fetch returns for the blocks a..b-1.
PagedFetch(k, a, b) ==
    LET r == PagedLoop(ChainLog("spend", a, b), ChainLog("sent", a, b), 0, 0, <<>>, <<>>)
    IN  IF k = "spend" THEN r[1] ELSE r[2]

Count(s, x) == Cardinality({i \in 1..Len(s) : s[i] = x})

SameCollection(s, t) ==
    \A x \in {s[i] : i \in 1..Len(s)} \cup {t[i] : i \in 1..Len(t)} :
        Count(s, x) = Count(t, x)

\* C13: over one chain, the direct fetch of the blocks [from, to) returns the
\* same collection of events as the paginated fetch of those blocks: no event
\* is missing from either and none is there twice.
C13_FetchesAgree ==
    rpc = "done" /\ queries # <<>>
        => SameCollection(events, PagedFetch(kind, queries[1].from, to))

\* The step just taken is a query that returned its events.
QuerySucceeded ==
    /\ rpc = "loop"
    /\ Len(queries') = Len(queries) + 1
    /\ queries'[Len(queries')].ok

\* C14: once the provider stops failing the call ends with from >= to, because
\* after any run of failures a successful query moves from forward and leaves
\* a step that can grow again. Stated for each successful query.
C14_SuccessAdvances ==
    [][QuerySucceeded => from' > from /\ step' >= 1]_vars

\* C15: in the loop step is never above 1024, and no query spans more than
\* 1024 blocks beyond its from.
C15_StepAtMostInitial ==
    /\ rpc = "loop" => step <= InitialStep
    /\ \A i \in 1..Len(queries) : queries[i].to - queries[i].from <= InitialStep

\* step has been halved and has grown back to 1024.
C15_Witness ==
    /\ rpc = "loop"
    /\ step = InitialStep
    /\ \E i \in 1..Len(queries) : ~queries[i].ok
    /\ \E i \in 1..Len(queries) : queries[i].to - queries[i].from = InitialStep \div 4

\* C16: to is an exclusive upper bound: no query reaches a block b >= to, and
\* every event returned lies in a block below to.
C16_ToIsExclusive ==
    /\ \A i \in 1..Len(queries) : queries[i].to < to
    /\ \A j \in 1..Len(events) : events[j] < to

\* The successful queries that cover block b (both ends of a query included).
Covering(b) ==
    {i \in 1..Len(queries) :
        queries[i].ok /\ queries[i].from <= b /\ b <= queries[i].to}

\* C17: when a call has ended, every block of [from, to) has been covered by
\* exactly one successful query, and no event is in the result twice.
C17_EachBlockOnce ==
    rpc = "done" /\ queries # <<>>
        => /\ \A b \in queries[1].from..(to - 1) : Cardinality(Covering(b)) = 1
           /\ \A i, j \in 1..Len(events) : i # j => events[i] # events[j]

\* C18: when the gossip request to a source peer S fails in any way (transport
\* error, non-success status, unreadable or malformed body), that step removes
\* S from peers and adds no peer.
C18_GossipFailureRemovesSource ==
    [][(pc = "gossip" /\ ("gossip_failed" \in last_step' \/ result' = "err_json"))
        => peers' = SelectSeq(peers, LAMBDA q : q.addr # cur[1].addr)]_vars

\* C19: a round that completes with at least one successful handshake elects
\* that round's winner, whatever peer was elected before it.
C19_ElectionIsRoundLocal ==
    pc = "done" /\ result = "ok" /\ succeeded # <<>>
        => elected_peer = <<Winner(succeeded)>>

\* A completed round has elected a peer of lower height than the peer elected
\* before it.
C19_Witness ==
    /\ pc = "done"
    /\ result = "ok"
    /\ succeeded # <<>>
    /\ elected_before # <<>>
    /\ elected_peer[1].current_block < elected_before[1].current_block

\* How many responses of a log carried events.
RECURSIVE NPages(_)
NPages(l) ==
    IF l = <<>> THEN 0
    ELSE (IF Head(l).resp = "page" THEN 1 ELSE 0) + NPages(Tail(l))

\* C20: the request issued after k pages with events asks for the start
\* cursors plus 256 * k each, with length 256, whatever the pages held; the
\* cursors also stand there between requests, and nothing else moves them.
C20_CursorsAdvanceByPageSize ==
    log # <<>>
        => /\ \A i \in 1..Len(log) :
                LET k == NPages(SubSeq(log, 1, i - 1))
                IN  /\ log[i].from_spend = log[1].from_spend + PageSize * k
                    /\ log[i].from_sent = log[1].from_sent + PageSize * k
                    /\ log[i].length = PageSize
           /\ from_spend = log[1].from_spend + PageSize * NPages(log)
           /\ from_sent = log[1].from_sent + PageSize * NPages(log)

\* Two pages of unequal lists, then a third request 512 further on each
\* cursor, from start cursors that differ.
C20_Witness ==
    /\ Len(log) = 3
    /\ log[1].resp = "page" /\ log[1].spend # <<>> /\ log[1].sent = <<>>
    /\ log[2].resp = "page"
    /\ log[1].from_spend = 0 /\ log[1].from_sent = 1
    /\ log[3].from_spend = 2 * PageSize /\ log[3].from_sent = 2 * PageSize + 1
====
